---- MODULE Spec2Model ----
(***************************************************************************)
(* Model of the data-access layer of the lifting diary:                    *)
(*   src/src/data/workout.ts   getAuthenticatedUserId, getWorkoutsByDate,  *)
(*                             getWorkoutStatsByDate, getUserWorkouts      *)
(*   src/src/lib/date-utils.ts getStartOfDay, getEndOfDay                  *)
(*   src/unnamed/part_000      the four-table schema and its constraints   *)
(*                                                                         *)
(* Every await of a handler is one step of the request that runs it, so    *)
(* requests interleave exactly at the awaits.  A nullable value is the     *)
(* empty tuple (Null) or a one-element tuple (Some(x)); a string is a      *)
(* tuple of one-character strings.  Instants are counted in ticks, the     *)
(* resolution of the timestamp column; a JavaScript Date holds whole       *)
(* milliseconds of local wall-clock time.                                  *)
(***************************************************************************)
EXTENDS Integers, Sequences, FiniteSets, TLC

\* ------------------------------------------------------------------ bounds
NumProcs == 2
NumDays == 2
MsPerDay == 2
SubPerMs == 2
MaxWorkouts == 2
MaxDuration == 1
MaxExercises == 2
MaxSets == 2
MaxOrder == 2
MaxWorkoutId == 3
MaxPicks == 2

Procs == 1..NumProcs
ClerkIds == {"ext_1", "ext_2"}

Null == <<>>
Some(x) == <<x>>

\* ----------------------------------------------------------------- strings
Str_a == <<"a", "@", "b">>
Str_c == <<"c", "@", "b">>
Str_Jane == <<"J">>
Str_Doe == <<"D">>
Str_User == <<"U", "s", "e", "r">>
Str_Empty == <<>>
Str_Blank == <<" ">>
Str_JaneSpace == <<"J", " ">>
Str_NoLocal == <<"@", "b">>
Str_NoAt == <<"a", "b">>

\* String.prototype.trim: drops the white space at both ends.
RECURSIVE TrimLeft(_)
TrimLeft(s) ==
  IF s # <<>> /\ Head(s) = " " THEN TrimLeft(Tail(s)) ELSE s

RECURSIVE TrimRight(_)
TrimRight(s) ==
  IF s # <<>> /\ s[Len(s)] = " " THEN TrimRight(SubSeq(s, 1, Len(s) - 1)) ELSE s

Trim(s) == TrimRight(TrimLeft(s))

\* s.split(ch)[0]: the text before the first ch, all of s when it has none.
RECURSIVE SplitFirst(_, _)
SplitFirst(s, ch) ==
  IF s = <<>> \/ Head(s) = ch THEN <<>>
  ELSE <<Head(s)>> \o SplitFirst(Tail(s), ch)

\* JavaScript truthiness of a nullable string: null, undefined and "" are falsy.
Truthy(o) == o # Null /\ o[1] # <<>>

\* ------------------------------------------------------- auth collaborator
\* What currentUser() can return: the profiles of the identity provider.
FirstNames == {Null, Some(Str_Jane)}
LastNames == {Null}
EmailLists == {<<>>, <<Str_a>>, <<Str_c>>}
Profiles ==
  [firstName : FirstNames, lastName : LastNames, emailAddresses : EmailLists]

\* The profiles with every shape of name and email the provider can hold.
NameProfiles ==
  [firstName : {Null, Some(Str_Empty), Some(Str_Blank), Some(Str_Jane), Some(Str_JaneSpace)},
   lastName : {Null, Some(Str_Empty), Some(Str_Doe)},
   emailAddresses : {<<>>, <<Str_a>>, <<Str_c, Str_a>>, <<Str_NoLocal>>, <<Str_NoAt>>,
                     <<Str_Empty>>}]

\* clerkUser.emailAddresses[0]?.emailAddress
PrimaryEmail(profile) ==
  IF Len(profile.emailAddresses) = 0 THEN Null
  ELSE Some(profile.emailAddresses[1])

\* Slip: the joined name is not trimmed.
DeriveName_NoTrim(profile) ==
  LET email == PrimaryEmail(profile)
      last == IF Truthy(profile.lastName) THEN profile.lastName[1] ELSE <<>>
      local == IF email = Null THEN Null ELSE Some(SplitFirst(email[1], "@"))
  IN  IF Truthy(profile.firstName)
        THEN profile.firstName[1] \o <<" ">> \o last
        ELSE IF Truthy(local) THEN local[1] ELSE Str_User

\* The display name of a new row.
DeriveName(profile) ==
  LET email == PrimaryEmail(profile)
      last == IF Truthy(profile.lastName) THEN profile.lastName[1] ELSE <<>>
      local == IF email = Null THEN Null ELSE Some(SplitFirst(email[1], "@"))
  IN  IF Truthy(profile.firstName)
        THEN Trim(profile.firstName[1] \o <<" ">> \o last)
        ELSE IF Truthy(local) THEN local[1] ELSE Str_User

\* ------------------------------------------------------------------- errors
Unauthorized == "Unauthorized"
EmailNotFound == "User email not found"
ClerkIdUniqueViolation == "users_clerkId_unique"
EmailUniqueViolation == "users_email_unique"
EmailNotNullViolation == "users_email_not_null"
NullDereference == "TypeError: Cannot read properties of null"

\* ------------------------------------------------------------------- state
VARIABLES
  users,          \* usersTable: rows [id, clerkId, name, email]
  workouts,       \* workoutsTable: rows [id, userId, startedAt, completedAt, duration]
  exercises,      \* exercisesTable: rows [id, workoutId, exerciseOrder]
  sets,           \* setsTable: rows [id, exerciseId, setNumber]
  session,        \* per request: the principal of its session, Null when there is none
  pc,             \* per request: the await it is suspended at
  op,             \* per request: the exported function it runs
  date,           \* per request: the Date argument, in ms
  clerkUserId,    \* per request: the result of auth()
  clerkUser,      \* per request: the result of currentUser()
  newUser,        \* per request: the values of the pending insert
  userId,         \* per request: the value getAuthenticatedUserId returned
  result,         \* per request: the value the function returned
  err,            \* per request: the message of the Error thrown
  trace,          \* per request: the collaborator calls made so far
  rowAtStart,     \* per request: a row of its principal existed when the call began
  everInserted,   \* history: every users row ever inserted
  resolved,       \* history: every <<clerkId, id>> getAuthenticatedUserId returned
  dateParam,      \* the text handed to parseDateFromYYYYMMDD
  parsedDate,     \* what parseDateFromYYYYMMDD returned for it
  pickerDate,     \* DatePickerClient: its state `date`, Null while not mounted
  otherParams,    \* the query parameters of the URL besides `date`
  navigations,    \* the router.push calls made so far
  handled         \* history: the arguments handleDateChange was called with

procVars ==
  <<pc, op, date, clerkUserId, clerkUser, newUser, userId, result, err, trace,
    rowAtStart>>
storeVars == <<workouts, exercises, sets>>
parseVars == <<dateParam, parsedDate, pickerDate, otherParams, navigations, handled>>
vars == <<users, storeVars, session, procVars, everInserted, resolved, parseVars>>

Ops == {"getWorkoutsByDate", "getWorkoutStatsByDate", "getUserWorkouts"}

\* The Date arguments: every millisecond of the modelled days.
Dates == 0..(NumDays * MsPerDay - 1)

\* The Date arguments the dashboard page passes: local midnights.
Midnights == {d \in Dates : d % MsPerDay = 0}

\* The instants the timestamp column can hold.
Instants == 0..(NumDays * MsPerDay * SubPerMs - 1)

\* A Date bound as a query parameter, in the column's resolution.
ToTimestamp(ms) == ms * SubPerMs

\* --------------------------------------------------------------- date-utils
\* Slip: setHours(0, 0, 0, 0) is missing.
getStartOfDay_Identity(d) == d

\* const start = new Date(date); start.setHours(0, 0, 0, 0); return start
getStartOfDay(d) == (d \div MsPerDay) * MsPerDay

\* Slip: the end bound is the next midnight.
getEndOfDay_NextMidnight(d) == (d \div MsPerDay) * MsPerDay + MsPerDay

getEndOfDay(d) == (d \div MsPerDay) * MsPerDay + (MsPerDay - 1)

\* ------------------------------------------------------------- users table
\* Slip: the where clause is missing, findFirst answers with any row.
FindUserByClerkId_AnyRow(rows, c) ==
  IF rows # {} THEN Some(CHOOSE u \in rows : TRUE) ELSE Null

\* db.query.usersTable.findFirst({ where: eq(usersTable.clerkId, c) })
FindUserByClerkId(rows, c) ==
  IF \E u \in rows : Some(u.clerkId) = c
    THEN Some(CHOOSE u \in rows : Some(u.clerkId) = c)
    ELSE Null

\* Slip: the check of the principal is missing.
NoPrincipal_Never(c) == FALSE

\* if (!clerkUserId)
NoPrincipal(c) == c = Null

\* Slip: the row is provisioned whether the lookup found it or not.
UserMissing_Always(user) == TRUE

\* if (!user)
UserMissing(user) == user = Null

\* Slip: the column is declared without unique().
ClerkIdTaken_Unconstrained(rows, c) == FALSE

\* clerkId: varchar.notNull().unique()
ClerkIdTaken(rows, c) == \E u \in rows : u.clerkId = c

\* Slip: email without unique().
EmailTaken_Unconstrained(rows, e) == FALSE

\* email: varchar.notNull().unique()
EmailTaken(rows, e) == \E u \in rows : u.email = e

\* id: integer.primaryKey().generatedAlwaysAsIdentity(): a value never given before.
NextUserId == Cardinality(everInserted) + 1

\* The constraints an insert of these values breaks; email is notNull() and unique().
InsertViolations(rows, values) ==
  IF values.email = Null THEN {EmailNotNullViolation}
  ELSE (IF ClerkIdTaken(rows, values.clerkId) THEN {ClerkIdUniqueViolation} ELSE {})
         \cup (IF EmailTaken(rows, values.email[1]) THEN {EmailUniqueViolation} ELSE {})

\* --------------------------------------------------------------- sequences
\* Every arrangement of the rows of S in a sequence.
Perms(S) ==
  {f \in [1..Cardinality(S) -> S] : \A i, j \in 1..Cardinality(S) : f[i] = f[j] => i = j}

\* The sequences ORDER BY may return: ties are left in any order.
SortedSeqs(S, InOrder(_, _)) ==
  {f \in Perms(S) : \A i, j \in 1..Cardinality(S) : i < j => InOrder(f[i], f[j])}

\* One admissible value per element of D.
ChoiceFns(D, R(_)) ==
  {f \in [D -> UNION {R(x) : x \in D}] : \A x \in D : f[x] \in R(x)}

RECURSIVE SumSeq(_)
SumSeq(s) == IF s = <<>> THEN 0 ELSE Head(s) + SumSeq(Tail(s))

\* ------------------------------------------------------------------ queries
\* Slip: the filter on the owner is missing.
WhereWorkoutsByDate_AnyUser(w, uid, startOfDay, endOfDay) ==
  /\ w.startedAt >= ToTimestamp(startOfDay)
  /\ w.startedAt <= ToTimestamp(endOfDay)

\* where: and(eq(userId), gte(startedAt, startOfDay), lte(startedAt, endOfDay))
WhereWorkoutsByDate(w, uid, startOfDay, endOfDay) ==
  /\ w.userId = uid
  /\ w.startedAt >= ToTimestamp(startOfDay)
  /\ w.startedAt <= ToTimestamp(endOfDay)

\* Slip: lt instead of lte.
WhereStatsByDate_ExclusiveEnd(w, uid, startOfDay, endOfDay) ==
  /\ w.userId = uid
  /\ w.startedAt >= ToTimestamp(startOfDay)
  /\ w.startedAt < ToTimestamp(endOfDay)

WhereStatsByDate(w, uid, startOfDay, endOfDay) ==
  /\ w.userId = uid
  /\ w.startedAt >= ToTimestamp(startOfDay)
  /\ w.startedAt <= ToTimestamp(endOfDay)

\* Slip: the general listing is bounded to the first day.
WhereUserWorkouts_FirstDay(w, uid) ==
  /\ w.userId = uid
  /\ w.startedAt <= ToTimestamp(getEndOfDay(0))

\* where: eq(workoutsTable.userId, userId)
WhereUserWorkouts(w, uid) == w.userId = uid

\* orderBy: [desc(workoutsTable.startedAt)]
DescStartedAt(a, b) == a.startedAt >= b.startedAt

\* Slip: desc instead of asc.
AscExerciseOrder_Desc(a, b) == a.exerciseOrder >= b.exerciseOrder

\* orderBy: [asc(exercises.exerciseOrder)]
AscExerciseOrder(a, b) == a.exerciseOrder <= b.exerciseOrder

\* orderBy: [asc(sets.setNumber)]
AscSetNumber(a, b) == a.setNumber <= b.setNumber

\* No orderBy: the rows come in any order.
AnyOrder(a, b) == TRUE

SetsOf(e) == {s \in sets : s.exerciseId = e.id}
ExercisesOf(w) == {e \in exercises : e.workoutId = w.id}

\* with: { sets: { orderBy } }
SetLists(e) == SortedSeqs(SetsOf(e), AscSetNumber)

ExerciseView(e, ss) ==
  [id |-> e.id, workoutId |-> e.workoutId, exerciseOrder |-> e.exerciseOrder,
   sets |-> ss]

\* with: { exercises: { orderBy, with: { sets } } }
ExerciseLists(w) ==
  {[i \in 1..Len(es) |-> ExerciseView(es[i], sf[es[i]])] :
     es \in SortedSeqs(ExercisesOf(w), AscExerciseOrder),
     sf \in ChoiceFns(ExercisesOf(w), SetLists)}

\* with: { exercises: true }
PlainExerciseLists(w) == SortedSeqs(ExercisesOf(w), AnyOrder)

WorkoutView(w, es) ==
  [id |-> w.id, userId |-> w.userId, startedAt |-> w.startedAt,
   completedAt |-> w.completedAt, duration |-> w.duration, exercises |-> es]

\* findMany with the nested, ordered relations.
NestedResults(W) ==
  {[i \in 1..Len(ws) |-> WorkoutView(ws[i], ef[ws[i]])] :
     ws \in SortedSeqs(W, DescStartedAt),
     ef \in ChoiceFns(W, ExerciseLists)}

\* findMany of getWorkoutStatsByDate: no order, exercises without their sets.
PlainResults(W) ==
  {[i \in 1..Len(ws) |-> WorkoutView(ws[i], ef[ws[i]])] :
     ws \in SortedSeqs(W, AnyOrder),
     ef \in ChoiceFns(W, PlainExerciseLists)}

\* Slip: the rows are served from a copy taken when the table was empty.
SelectWorkoutsByDate_Cached(rows, uid, d) == {}

SelectWorkoutsByDate(rows, uid, d) ==
  {w \in rows : WhereWorkoutsByDate(w, uid, getStartOfDay(d), getEndOfDay(d))}

SelectStatsByDate(rows, uid, d) ==
  {w \in rows : WhereStatsByDate(w, uid, getStartOfDay(d), getEndOfDay(d))}

SelectUserWorkouts(rows, uid) == {w \in rows : WhereUserWorkouts(w, uid)}

\* Slip: || 1 instead of || 0.
ExerciseCount_OrOne(w) == IF Len(w.exercises) = 0 THEN 1 ELSE Len(w.exercises)

\* workout.exercises?.length || 0
ExerciseCount(w) == Len(w.exercises)

\* Slip: an absent duration is derived from the two timestamps.
DurationOrZero_Derived(w) ==
  IF w.duration # Null THEN w.duration[1]
  ELSE IF w.completedAt = Null THEN 0
  ELSE (w.completedAt[1] - w.startedAt) \div SubPerMs

\* workout.duration || 0
DurationOrZero(w) == IF w.duration = Null THEN 0 ELSE w.duration[1]

totalWorkouts(ws) == Len(ws)
totalExercises(ws) == SumSeq([i \in 1..Len(ws) |-> ExerciseCount(ws[i])])
totalDuration(ws) == SumSeq([i \in 1..Len(ws) |-> DurationOrZero(ws[i])])

Stats(ws) ==
  [totalWorkouts |-> totalWorkouts(ws),
   totalExercises |-> totalExercises(ws),
   totalDuration |-> totalDuration(ws)]

\* ----------------------------------------------------------------- requests
DbCalls == {"findFirst", "insert", "findMany"}

Fail(p, message) ==
  /\ pc' = [pc EXCEPT ![p] = "failed"]
  /\ err' = [err EXCEPT ![p] = Some(message)]

Called(p, what) == trace' = [trace EXCEPT ![p] = Append(@, what)]

\* A request enters one of the exported functions; s is its session.
StartCall(p, o, d, s) ==
  /\ pc[p] = "idle"
  /\ pc' = [pc EXCEPT ![p] = "auth"]
  /\ op' = [op EXCEPT ![p] = o]
  /\ date' = [date EXCEPT ![p] = IF o = "getUserWorkouts" THEN 0 ELSE d]
  /\ session' = [session EXCEPT ![p] = s]
  /\ rowAtStart' = [rowAtStart EXCEPT ![p] = s # Null /\ ClerkIdTaken(users, s[1])]
  /\ UNCHANGED <<users, storeVars, clerkUserId, clerkUser, newUser, userId, result,
                 err, trace, everInserted, resolved, parseVars>>

\* The session of a request in flight ends after auth() answered.
SessionExpire(p) ==
  /\ pc[p] \in {"findUser", "currentUser"}
  /\ session[p] # Null
  /\ session' = [session EXCEPT ![p] = Null]
  /\ UNCHANGED <<users, storeVars, procVars, everInserted, resolved, parseVars>>

\* const { userId: clerkUserId } = await auth(); if (!clerkUserId) throw
Auth(p) ==
  /\ pc[p] = "auth"
  /\ clerkUserId' = [clerkUserId EXCEPT ![p] = session[p]]
  /\ Called(p, "auth")
  /\ IF NoPrincipal(session[p])
       THEN Fail(p, Unauthorized)
       ELSE /\ pc' = [pc EXCEPT ![p] = "findUser"]
            /\ UNCHANGED err
  /\ UNCHANGED <<users, storeVars, session, op, date, clerkUser, newUser, userId,
                 result, rowAtStart, everInserted, resolved, parseVars>>

\* let user = await db.query.usersTable.findFirst(...); if found, return user.id
FindUser(p) ==
  /\ pc[p] = "findUser"
  /\ Called(p, "findFirst")
  /\ LET user == FindUserByClerkId(users, clerkUserId[p])
     IN  IF UserMissing(user)
           THEN /\ pc' = [pc EXCEPT ![p] = "currentUser"]
                /\ UNCHANGED <<userId, resolved>>
           ELSE /\ pc' = [pc EXCEPT ![p] = "findMany"]
                /\ userId' = [userId EXCEPT ![p] = Some(user[1].id)]
                /\ resolved' = resolved \cup {<<clerkUserId[p][1], user[1].id>>}
  /\ UNCHANGED <<users, storeVars, session, op, date, clerkUserId, clerkUser, newUser,
                 result, err, rowAtStart, everInserted, parseVars>>

\* What currentUser() answers: a profile, or null once the session is gone.
CurrentUserResults(s, profiles) ==
  IF s = Null THEN {Null} ELSE {Some(profile) : profile \in profiles}

\* Slip: the check of the profile is missing.
ProfileMissing_Never(cu) == FALSE

\* if (!clerkUser)
ProfileMissing(cu) == cu = Null

\* Slip: the check of the email is missing.
EmailMissing_Never(email) == FALSE

\* if (!email)
EmailMissing(email) == ~Truthy(email)

\* const clerkUser = await currentUser(); derive email and name; throw without them
CurrentUserWith(p, profiles) ==
  /\ pc[p] = "currentUser"
  /\ Called(p, "currentUser")
  /\ \E cu \in CurrentUserResults(session[p], profiles) :
       /\ clerkUser' = [clerkUser EXCEPT ![p] = cu]
       /\ IF ProfileMissing(cu)
            THEN /\ Fail(p, Unauthorized)
                 /\ UNCHANGED newUser
            ELSE IF cu = Null
            THEN /\ Fail(p, NullDereference)
                 /\ UNCHANGED newUser
            ELSE LET email == PrimaryEmail(cu[1])
                     name == DeriveName(cu[1])
                 IN  IF EmailMissing(email)
                       THEN /\ Fail(p, EmailNotFound)
                            /\ UNCHANGED newUser
                       ELSE /\ pc' = [pc EXCEPT ![p] = "insert"]
                            /\ newUser' = [newUser EXCEPT ![p] =
                                 Some([clerkId |-> clerkUserId[p][1], email |-> email,
                                       name |-> name])]
                            /\ UNCHANGED err
  /\ UNCHANGED <<users, storeVars, session, op, date, clerkUserId, userId, result,
                 rowAtStart, everInserted, resolved, parseVars>>

CurrentUser(p) == CurrentUserWith(p, Profiles)

\* Slip: the row is written without its name, which a second statement fills in.
NewUserRow_Partial(values) ==
  [id |-> NextUserId, clerkId |-> values.clerkId, name |-> Null,
   email |-> values.email[1]]

\* The row of db.insert(usersTable).values({ clerkId, email, name }).
NewUserRow(values) ==
  [id |-> NextUserId, clerkId |-> values.clerkId, name |-> values.name,
   email |-> values.email[1]]

\* const [newUser] = await db.insert(usersTable).values(...).returning(); return its id
InsertUser(p) ==
  /\ pc[p] = "insert"
  /\ Called(p, "insert")
  /\ LET values == newUser[p][1]
         violated == InsertViolations(users, values)
         row == NewUserRow(values)
     IN  IF violated # {}
           THEN /\ \E v \in violated : Fail(p, v)
                /\ UNCHANGED <<users, userId, everInserted, resolved>>
           ELSE /\ users' = users \cup {row}
                /\ everInserted' = everInserted \cup {row}
                /\ userId' = [userId EXCEPT ![p] = Some(row.id)]
                /\ resolved' = resolved \cup {<<row.clerkId, row.id>>}
                /\ pc' = [pc EXCEPT ![p] = "findMany"]
                /\ UNCHANGED err
  /\ UNCHANGED <<storeVars, session, op, date, clerkUserId, clerkUser, newUser,
                 result, rowAtStart, parseVars>>

Returned(p, value) ==
  /\ Called(p, "findMany")
  /\ result' = [result EXCEPT ![p] = Some(value)]
  /\ pc' = [pc EXCEPT ![p] = "done"]
  /\ UNCHANGED <<users, storeVars, session, op, date, clerkUserId, clerkUser, newUser,
                 userId, err, rowAtStart, everInserted, resolved, parseVars>>

\* getWorkoutsByDate: the findMany and the return
FindWorkoutsByDate(p) ==
  /\ pc[p] = "findMany"
  /\ op[p] = "getWorkoutsByDate"
  /\ \E ws \in NestedResults(SelectWorkoutsByDate(workouts, userId[p][1], date[p])) :
       Returned(p, ws)

\* getWorkoutStatsByDate: the findMany, the three reductions and the return
FindStatsByDate(p) ==
  /\ pc[p] = "findMany"
  /\ op[p] = "getWorkoutStatsByDate"
  /\ \E ws \in PlainResults(SelectStatsByDate(workouts, userId[p][1], date[p])) :
       Returned(p, Stats(ws))

\* getUserWorkouts: the findMany and the return
FindUserWorkouts(p) ==
  /\ pc[p] = "findMany"
  /\ op[p] = "getUserWorkouts"
  /\ \E ws \in NestedResults(SelectUserWorkouts(workouts, userId[p][1])) :
       Returned(p, ws)

\* The request ends; its slot serves the next one.
Finish(p) ==
  /\ pc[p] \in {"done", "failed"}
  /\ pc' = [pc EXCEPT ![p] = "idle"]
  /\ op' = [op EXCEPT ![p] = "getUserWorkouts"]
  /\ date' = [date EXCEPT ![p] = 0]
  /\ session' = [session EXCEPT ![p] = Null]
  /\ clerkUserId' = [clerkUserId EXCEPT ![p] = Null]
  /\ clerkUser' = [clerkUser EXCEPT ![p] = Null]
  /\ newUser' = [newUser EXCEPT ![p] = Null]
  /\ userId' = [userId EXCEPT ![p] = Null]
  /\ result' = [result EXCEPT ![p] = Null]
  /\ err' = [err EXCEPT ![p] = Null]
  /\ trace' = [trace EXCEPT ![p] = <<>>]
  /\ rowAtStart' = [rowAtStart EXCEPT ![p] = FALSE]
  /\ UNCHANGED <<users, storeVars, everInserted, resolved, parseVars>>

\* ---------------------------------------------------------- specifications
Sessions == {Null} \cup {Some(c) : c \in ClerkIds}

InitRequests ==
  /\ session = [p \in Procs |-> Null]
  /\ pc = [p \in Procs |-> "idle"]
  /\ op = [p \in Procs |-> "getUserWorkouts"]
  /\ date = [p \in Procs |-> 0]
  /\ clerkUserId = [p \in Procs |-> Null]
  /\ clerkUser = [p \in Procs |-> Null]
  /\ newUser = [p \in Procs |-> Null]
  /\ userId = [p \in Procs |-> Null]
  /\ result = [p \in Procs |-> Null]
  /\ err = [p \in Procs |-> Null]
  /\ trace = [p \in Procs |-> <<>>]
  /\ rowAtStart = [p \in Procs |-> FALSE]

\* The date picker is not on screen.
InitNoPicker ==
  /\ pickerDate = Null
  /\ otherParams = Null
  /\ navigations = <<>>
  /\ handled = <<>>

\* No request carries a date parameter.
InitProcs ==
  /\ InitRequests
  /\ InitNoPicker
  /\ dateParam = Null
  /\ parsedDate = Null

\* The empty database: no principal is provisioned yet.
Init ==
  /\ users = {}
  /\ workouts = {}
  /\ exercises = {}
  /\ sets = {}
  /\ everInserted = {}
  /\ resolved = {}
  /\ InitProcs

Next ==
  \E p \in Procs :
    \/ \E o \in Ops, d \in Midnights, s \in Sessions : StartCall(p, o, d, s)
    \/ SessionExpire(p)
    \/ Auth(p)
    \/ FindUser(p)
    \/ CurrentUser(p)
    \/ InsertUser(p)
    \/ FindWorkoutsByDate(p)
    \/ FindStatsByDate(p)
    \/ FindUserWorkouts(p)
    \/ Finish(p)

Spec == Init /\ [][Next]_vars

\* ------------------------------------------- stores of the read-only checks
\* Both principals were provisioned by earlier requests (no first name on file).
User1 == [id |-> 1, clerkId |-> "ext_1", name |-> SplitFirst(Str_a, "@"), email |-> Str_a]
User2 == [id |-> 2, clerkId |-> "ext_2", name |-> SplitFirst(Str_c, "@"), email |-> Str_c]

SeqsUpTo(S, n) == UNION {[1..k -> S] : k \in 0..n}

\* Rows as the mutation collaborator leaves them: ids in insertion order.
WorkoutRows(seq) ==
  {[id |-> i, userId |-> seq[i].userId, startedAt |-> seq[i].startedAt,
    completedAt |-> IF seq[i].completed THEN Some(seq[i].startedAt + SubPerMs) ELSE Null,
    duration |-> seq[i].duration] : i \in 1..Len(seq)}

ExerciseRows(seq) ==
  {[id |-> i, workoutId |-> seq[i].workoutId, exerciseOrder |-> seq[i].exerciseOrder] :
     i \in 1..Len(seq)}

SetRows(seq) ==
  {[id |-> i, exerciseId |-> seq[i].exerciseId, setNumber |-> seq[i].setNumber] :
     i \in 1..Len(seq)}

Durations == {Null} \cup {Some(n) : n \in 1..MaxDuration}

\* Workouts of both users at every instant, with and without duration and completion.
WorkoutAttrs ==
  [userId : {User1.id, User2.id}, startedAt : Instants, completed : BOOLEAN,
   duration : Durations]

\* Workouts of both users in the first two milliseconds and at the second
\* midnight, nothing else on file.
NestedWorkoutAttrs ==
  [userId : {User1.id, User2.id},
   startedAt : {ToTimestamp(0), ToTimestamp(1), ToTimestamp(MsPerDay)},
   completed : {FALSE}, duration : {Null}]

InitStore(attrs, maxExercises, maxSets) ==
  /\ users = {User1, User2}
  /\ everInserted = {User1, User2}
  /\ resolved = {}
  /\ workouts \in {WorkoutRows(seq) : seq \in SeqsUpTo(attrs, MaxWorkouts)}
  /\ exercises \in
       {ExerciseRows(seq) :
          seq \in SeqsUpTo([workoutId : {w.id : w \in workouts},
                            exerciseOrder : 1..MaxOrder], maxExercises)}
  /\ sets \in
       {SetRows(seq) :
          seq \in SeqsUpTo([exerciseId : {e.id : e \in exercises},
                            setNumber : 1..MaxOrder], maxSets)}
  /\ InitProcs

InitQuery == InitStore(WorkoutAttrs, 0, 0)

InitNested == InitStore(NestedWorkoutAttrs, MaxExercises, MaxSets)

\* One request at a time reads the store; the store does not change.
Reads(dates, principals) ==
  \/ \E o \in Ops, d \in dates, c \in principals : StartCall(1, o, d, Some(c))
  \/ Auth(1)
  \/ FindUser(1)
  \/ FindWorkoutsByDate(1)
  \/ FindStatsByDate(1)
  \/ FindUserWorkouts(1)
  \/ Finish(1)

NextQuery == Reads(Dates, ClerkIds)

NextNested == Reads({0}, {User1.clerkId})

SpecQuery == InitQuery /\ [][NextQuery]_vars

SpecNested == InitNested /\ [][NextNested]_vars

\* ------------------------------------------------------------------ claims
\* The vocabulary of the claims: calendar days and what a request returned.
DayOfDate(d) == d \div MsPerDay
CalendarDay(t) == t \div (MsPerDay * SubPerMs)
DayFirstInstant(D) == D * MsPerDay * SubPerMs
DayLastMs(D) == (D * MsPerDay + (MsPerDay - 1)) * SubPerMs
InDayRange(t, D) == DayFirstInstant(D) <= t /\ t <= DayLastMs(D)

Done(p, o) == pc[p] = "done" /\ op[p] = o
Items(seq) == {seq[i] : i \in 1..Len(seq)}
OwnWorkouts(uid) == {w \in workouts : w.userId = uid}
OwnOfDay(uid, d) == {w \in OwnWorkouts(uid) : InDayRange(w.startedAt, DayOfDate(d))}

StoredDuration(w) == IF w.duration = Null THEN 0 ELSE w.duration[1]

RECURSIVE SumStoredDuration(_)
SumStoredDuration(S) ==
  IF S = {} THEN 0
  ELSE LET x == CHOOSE y \in S : TRUE IN StoredDuration(x) + SumStoredDuration(S \ {x})

\* C1: a finished read was made for the internal user of its principal, and its
\* result is what the same read returns on a store holding that user's workouts
\* only: no row of the list and no term of a statistic comes from another user.
C1_OnlyOwnWorkouts ==
  \A p \in Procs :
    pc[p] = "done" =>
      LET U == userId[p][1]
          own == OwnWorkouts(U)
          r == result[p][1]
      IN  /\ \E u \in users : u.id = U /\ Some(u.clerkId) = clerkUserId[p]
          /\ op[p] = "getWorkoutsByDate" =>
               /\ \A w \in Items(r) : w.userId = U
               /\ r \in NestedResults(SelectWorkoutsByDate(own, U, date[p]))
          /\ op[p] = "getWorkoutStatsByDate" =>
               r \in {Stats(ws) : ws \in PlainResults(SelectStatsByDate(own, U, date[p]))}
          /\ op[p] = "getUserWorkouts" =>
               /\ \A w \in Items(r) : w.userId = U
               /\ r \in NestedResults(SelectUserWorkouts(own, U))

\* C1 happens: a dated list is returned while another user has a workout that day.
C1_Witness ==
  \E p \in Procs :
    /\ Done(p, "getWorkoutsByDate")
    /\ Len(result[p][1]) >= 1
    /\ \E w \in workouts :
         w.userId # userId[p][1] /\ InDayRange(w.startedAt, DayOfDate(date[p]))

\* C2: a request whose insert met an existing row of its own external identity
\* (both lookups missed, the other insert won) does not fail: it ends up with the
\* internal id of that row.
C2_RaceRetriesLookup ==
  \A p \in Procs :
    (/\ pc[p] \in {"findMany", "done", "failed"}
     /\ "insert" \in Items(trace[p])
     /\ \E u \in users : Some(u.clerkId) = clerkUserId[p])
      => /\ pc[p] # "failed"
         /\ \E u \in users : Some(u.clerkId) = clerkUserId[p] /\ userId[p] = Some(u.id)

\* C3: the users table holds at most one row per clerkId, every row ever inserted
\* is still there unchanged, and no clerkId was given a row twice.
C3_OneRowPerClerkId ==
  /\ \A u1, u2 \in users : u1.clerkId = u2.clerkId => u1 = u2
  /\ everInserted \subseteq users
  /\ \A r1, r2 \in everInserted : r1.clerkId = r2.clerkId => r1 = r2
  /\ \A r1, r2 \in everInserted : r1.id = r2.id => r1 = r2

\* C3 happens: two resolutions of one identity raced and the second insert was refused.
C3_Witness ==
  \E p \in Procs :
    /\ pc[p] = "failed"
    /\ err[p] = Some(ClerkIdUniqueViolation)
    /\ \E u \in users : Some(u.clerkId) = clerkUserId[p]

\* C4: all resolutions of one external identity returned the same internal id, at
\* most one row was ever inserted for it, and a call that began when the row
\* existed made the lookup only: no profile fetch, no insert.
C4_ResolveIdempotent ==
  /\ \A a, b \in resolved : a[1] = b[1] => a[2] = b[2]
  /\ \A c \in ClerkIds : Cardinality({r \in everInserted : r.clerkId = c}) <= 1
  /\ \A p \in Procs :
       rowAtStart[p] =>
         /\ "currentUser" \notin Items(trace[p])
         /\ "insert" \notin Items(trace[p])

\* C4 happens: after the call that provisioned the row, a later call for the same
\* identity returned the same id with the lookup as its only resolver step.
C4_Witness ==
  \E p \in Procs :
    /\ pc[p] = "done"
    /\ rowAtStart[p]
    /\ trace[p] = <<"auth", "findFirst", "findMany">>
    /\ \E r \in everInserted : Some(r.clerkId) = clerkUserId[p] /\ userId[p] = Some(r.id)
    /\ <<clerkUserId[p][1], userId[p][1]>> \in resolved

\* C5: once auth() has reported no principal, the request has failed with the
\* Unauthorized error and has made no call to the persistence engine.
C5_UnauthenticatedBeforeStore ==
  \A p \in Procs :
    (pc[p] \notin {"idle", "auth"} /\ clerkUserId[p] = Null)
      => /\ pc[p] = "failed"
         /\ err[p] = Some(Unauthorized)
         /\ Items(trace[p]) \cap DbCalls = {}
         /\ result[p] = Null

\* C5 happens: getWorkoutsByDate was called without a session and has failed.
C5_Witness ==
  \E p \in Procs :
    /\ pc[p] = "failed"
    /\ op[p] = "getWorkoutsByDate"
    /\ clerkUserId[p] = Null
    /\ trace[p] = <<"auth">>

\* C6: getWorkoutsByDate(D) returns, once each, exactly the user's workouts whose
\* startedAt lies in [D 00:00:00.000, D 23:59:59.999], both ends included, and
\* every returned workout is of calendar day D.
C6_ExactlyTheDay ==
  \A p \in Procs :
    Done(p, "getWorkoutsByDate") =>
      LET r == result[p][1]
      IN  /\ {w.id : w \in Items(r)} = {w.id : w \in OwnOfDay(userId[p][1], date[p])}
          /\ Len(r) = Cardinality(OwnOfDay(userId[p][1], date[p]))
          /\ \A w \in Items(r) : CalendarDay(w.startedAt) = DayOfDate(date[p])

\* C6 happens: a workout at 23:59:59.999 is returned while the user's workout at
\* the next midnight is not.
C6_Witness ==
  \E p \in Procs :
    /\ Done(p, "getWorkoutsByDate")
    /\ \E w \in Items(result[p][1]) : w.startedAt = DayLastMs(DayOfDate(date[p]))
    /\ \E w \in OwnWorkouts(userId[p][1]) :
         /\ w.startedAt = DayFirstInstant(DayOfDate(date[p]) + 1)
         /\ w.id \notin {x.id : x \in Items(result[p][1])}

\* C7: in a result of getWorkoutsByDate the workouts descend by startedAt, the
\* exercises of each workout ascend by exerciseOrder and the sets of each
\* exercise ascend by setNumber.
C7_Sorted ==
  \A p \in Procs :
    Done(p, "getWorkoutsByDate") =>
      LET r == result[p][1]
      IN  /\ \A i, j \in 1..Len(r) : i < j => r[i].startedAt >= r[j].startedAt
          /\ \A w \in Items(r) :
               LET es == w.exercises
               IN  /\ \A i, j \in 1..Len(es) :
                        i < j => es[i].exerciseOrder <= es[j].exerciseOrder
                   /\ \A e \in Items(es) :
                        \A i, j \in 1..Len(e.sets) :
                          i < j => e.sets[i].setNumber <= e.sets[j].setNumber

\* C7 happens: exercises inserted with orders 2 then 1 come back as [1, 2], and
\* sets inserted with numbers 2 then 1 come back as [1, 2].
C7_Witness ==
  \E p \in Procs :
    /\ Done(p, "getWorkoutsByDate")
    /\ \E w \in Items(result[p][1]) :
         LET es == w.exercises
         IN  /\ Len(es) = 2
             /\ es[1].exerciseOrder = 1 /\ es[2].exerciseOrder = 2
             /\ es[1].id > es[2].id
             /\ \E e \in Items(es) :
                  /\ Len(e.sets) = 2
                  /\ e.sets[1].setNumber < e.sets[2].setNumber
                  /\ e.sets[1].id > e.sets[2].id

\* C8: totalWorkouts of getWorkoutStatsByDate(D) is the length of every list
\* getWorkoutsByDate(D) can return for the same user on the same store.
C8_CountMatchesList ==
  \A p \in Procs :
    Done(p, "getWorkoutStatsByDate") =>
      \A ws \in NestedResults(SelectWorkoutsByDate(workouts, userId[p][1], date[p])) :
        result[p][1].totalWorkouts = Len(ws)

\* C8 happens: statistics count a workout at the day's last millisecond while the
\* user has another workout outside the day.
C8_Witness ==
  \E p \in Procs :
    /\ Done(p, "getWorkoutStatsByDate")
    /\ result[p][1].totalWorkouts = 1
    /\ \E w \in OwnOfDay(userId[p][1], date[p]) :
         w.startedAt = DayLastMs(DayOfDate(date[p]))
    /\ OwnWorkouts(userId[p][1]) # OwnOfDay(userId[p][1], date[p])

\* C9: totalExercises is the number of exercise rows of the user's workouts of
\* the day, 0 when there is none.
C9_TotalExercises ==
  \A p \in Procs :
    Done(p, "getWorkoutStatsByDate") =>
      LET sel == OwnOfDay(userId[p][1], date[p])
      IN  /\ result[p][1].totalExercises =
               Cardinality({e \in exercises : \E w \in sel : e.workoutId = w.id})
          /\ sel = {} => result[p][1].totalExercises = 0

\* C9 happens: one selected workout has no exercise, another has some.
C9_Witness ==
  \E p \in Procs :
    /\ Done(p, "getWorkoutStatsByDate")
    /\ result[p][1].totalExercises >= 1
    /\ \E w1, w2 \in OwnOfDay(userId[p][1], date[p]) :
         /\ ~ \E e \in exercises : e.workoutId = w1.id
         /\ \E e \in exercises : e.workoutId = w2.id

\* C10: totalDuration is the sum of the duration fields of the user's workouts
\* of the day, an absent duration counting 0 whatever the timestamps say.
C10_TotalDuration ==
  \A p \in Procs :
    Done(p, "getWorkoutStatsByDate") =>
      result[p][1].totalDuration = SumStoredDuration(OwnOfDay(userId[p][1], date[p]))

\* C10 happens: a selected workout has no duration but both timestamps, another
\* has a duration.
C10_Witness ==
  \E p \in Procs :
    /\ Done(p, "getWorkoutStatsByDate")
    /\ result[p][1].totalDuration >= 1
    /\ \E w1, w2 \in OwnOfDay(userId[p][1], date[p]) :
         /\ w1.duration = Null /\ w1.completedAt # Null
         /\ w2.duration # Null

\* ------------------------------------------------- provisioning, any profile
\* One principal is resolved again and again; the provider may hold any profile.
NextProfile ==
  \/ \E o \in Ops : StartCall(1, o, 0, Some("ext_1"))
  \/ Auth(1)
  \/ FindUser(1)
  \/ CurrentUserWith(1, NameProfiles)
  \/ InsertUser(1)
  \/ FindWorkoutsByDate(1)
  \/ FindStatsByDate(1)
  \/ FindUserWorkouts(1)
  \/ Finish(1)

SpecProfile == Init /\ [][NextProfile]_vars

\* t is s without the white space at its two ends.
IsTrimOf(t, s) ==
  \E i \in 1..(Len(s) + 1), j \in 0..Len(s) :
    /\ t = SubSeq(s, i, j)
    /\ \A k \in 1..(i - 1) : s[k] = " "
    /\ \A k \in (j + 1)..Len(s) : s[k] = " "
    /\ t # <<>> => t[1] # " " /\ t[Len(t)] # " "

\* t is the text of s before its first "@", all of s when it has none.
IsLocalPartOf(t, s) ==
  \E k \in 0..Len(s) :
    /\ t = SubSeq(s, 1, k)
    /\ \A i \in 1..k : s[i] # "@"
    /\ k < Len(s) => s[k + 1] = "@"

HasText(o) == o # Null /\ Len(o[1]) > 0

C12_NoEmailNoInsert ==
  \A p \in Procs :
    (clerkUser[p] # Null /\ clerkUser[p][1].emailAddresses = <<>>) =>
      /\ pc[p] = "failed"
      /\ err[p] = Some(EmailNotFound)
      /\ err[p] # Some(Unauthorized)
      /\ "insert" \notin Items(trace[p])
      /\ newUser[p] = Null
      /\ userId[p] = Null

\* C12 happens: a call has failed on a profile without an email address.
C12_Witness ==
  \E p \in Procs :
    /\ pc[p] = "failed"
    /\ clerkUser[p] # Null
    /\ clerkUser[p][1].emailAddresses = <<>>
    /\ FindUserByClerkId(users, clerkUserId[p]) = Null

\* C13: when auth() named a principal and currentUser() then answers null, the
\* resolver fails with "Unauthorized" and the call never reaches the insert.
C13_ExpiredBeforeProfile ==
  \A p \in Procs :
    (clerkUserId[p] # Null /\ "currentUser" \in Items(trace[p]) /\ clerkUser[p] = Null) =>
      /\ pc[p] = "failed"
      /\ err[p] = Some(Unauthorized)
      /\ "insert" \notin Items(trace[p])
      /\ newUser[p] = Null
      /\ userId[p] = Null

\* C13 happens: the session ended between auth() and currentUser().
C13_Witness ==
  \E p \in Procs :
    /\ pc[p] = "failed"
    /\ clerkUserId[p] # Null
    /\ session[p] = Null
    /\ "currentUser" \in Items(trace[p])
    /\ clerkUser[p] = Null

\* ------------------------------------------------ a persistence engine that fails
DbError == "driver error"

\* The trace entry of a db call whose promise rejected, by the position of the call.
RejectionOf ==
  [findUser |-> "findFirst rejected", insert |-> "insert rejected",
   findMany |-> "findMany rejected"]

Rejections == {RejectionOf[k] : k \in DOMAIN RejectionOf}

\* Slip: the rejection is caught and an empty answer returned in its place.
Rejected_Swallowed(p, message) ==
  /\ pc' = [pc EXCEPT ![p] = "done"]
  /\ result' = [result EXCEPT ![p] =
       Some(IF op[p] = "getWorkoutStatsByDate" THEN Stats(<<>>) ELSE <<>>)]
  /\ UNCHANGED err

\* No try/catch around any await: the rejection leaves the function as its error.
Rejected(p, message) ==
  /\ Fail(p, message)
  /\ UNCHANGED result

\* The engine cannot complete the findFirst, the insert or the findMany in flight.
DbFails(p) ==
  /\ pc[p] \in DOMAIN RejectionOf
  /\ Called(p, RejectionOf[pc[p]])
  /\ Rejected(p, DbError)
  /\ UNCHANGED <<users, storeVars, session, op, date, clerkUserId, clerkUser, newUser,
                 userId, rowAtStart, everInserted, resolved, parseVars>>

Aborted == "aborted"

\* The caller gives up on a call in flight.  An INSERT in flight is one statement:
\* it has taken effect as a whole or not at all.
Abort(p) ==
  /\ pc[p] \in {"auth", "findUser", "currentUser", "insert", "findMany"}
  /\ Rejected(p, Aborted)
  /\ \/ UNCHANGED <<users, everInserted>>
     \/ /\ pc[p] = "insert"
        /\ InsertViolations(users, newUser[p][1]) = {}
        /\ users' = users \cup {NewUserRow(newUser[p][1])}
        /\ everInserted' = everInserted \cup {NewUserRow(newUser[p][1])}
  /\ UNCHANGED <<storeVars, session, op, date, clerkUserId, clerkUser, newUser,
                 userId, trace, rowAtStart, resolved, parseVars>>

\* The first principal is provisioned and has at most one workout, on the first day.
FaultyWorkoutAttrs ==
  [userId : {User1.id}, startedAt : {ToTimestamp(0)}, completed : {TRUE},
   duration : {Some(1)}]

InitFaulty ==
  /\ users = {User1}
  /\ everInserted = {User1}
  /\ resolved = {}
  /\ workouts \in {WorkoutRows(seq) : seq \in SeqsUpTo(FaultyWorkoutAttrs, 1)}
  /\ exercises = {}
  /\ sets = {}
  /\ InitProcs

NextFaulty ==
  \/ \E o \in Ops, d \in Midnights, c \in ClerkIds : StartCall(1, o, d, Some(c))
  \/ Auth(1)
  \/ FindUser(1)
  \/ CurrentUser(1)
  \/ InsertUser(1)
  \/ DbFails(1)
  \/ Abort(1)
  \/ FindWorkoutsByDate(1)
  \/ FindStatsByDate(1)
  \/ FindUserWorkouts(1)
  \/ Finish(1)

SpecFaulty == InitFaulty /\ [][NextFaulty]_vars

\* The workouts the call of p is about: the user's of the day, or all of the user's.
Matching(p) ==
  IF op[p] = "getUserWorkouts" THEN OwnWorkouts(userId[p][1])
  ELSE OwnOfDay(userId[p][1], date[p])

EmptyAnswer(p) ==
  IF op[p] = "getWorkoutStatsByDate" THEN result[p][1].totalWorkouts = 0
  ELSE result[p][1] = <<>>

\* C14: a call whose findFirst, insert or findMany was rejected by the engine, or
\* whose insert broke a constraint, ends failed with that error and without a
\* result; a call that returns an empty list or zero statistics completed its
\* findMany and no workout of the user matches.
C14_FailureSurfaces ==
  \A p \in Procs :
    /\ (Items(trace[p]) \cap Rejections # {}) =>
         (pc[p] = "failed" /\ err[p] = Some(DbError) /\ result[p] = Null)
    /\ pc[p] = "failed" => (err[p] # Null /\ result[p] = Null)
    /\ (pc[p] = "done" /\ EmptyAnswer(p)) =>
         /\ Items(trace[p]) \cap Rejections = {}
         /\ "findMany" \in Items(trace[p])
         /\ err[p] = Null
         /\ Matching(p) = {}

\* C14 happens: the findMany of a day with a workout of the user was rejected.
C14_Witness ==
  \E p \in Procs :
    /\ "findMany rejected" \in Items(trace[p])
    /\ op[p] = "getWorkoutsByDate"
    /\ OwnOfDay(userId[p][1], date[p]) # {}
    /\ pc[p] = "failed"

\* C15: getUserWorkouts returns, once each, all workouts of the user whatever
\* their day, descending by startedAt; each carries all its exercises ascending
\* by exerciseOrder, and each exercise all its sets ascending by setNumber.
C15_AllWorkoutsSorted ==
  \A p \in Procs :
    Done(p, "getUserWorkouts") =>
      LET r == result[p][1]
          own == OwnWorkouts(userId[p][1])
      IN  /\ Len(r) = Cardinality(own)
          /\ \A w \in own : \E i \in 1..Len(r) :
               r[i].id = w.id /\ r[i].startedAt = w.startedAt
          /\ \A i, j \in 1..Len(r) : i < j => r[i].startedAt >= r[j].startedAt
          /\ \A v \in Items(r) :
               LET es == v.exercises
               IN  /\ Len(es) = Cardinality({e \in exercises : e.workoutId = v.id})
                   /\ \A e \in exercises :
                        e.workoutId = v.id => \E i \in 1..Len(es) : es[i].id = e.id
                   /\ \A i, j \in 1..Len(es) :
                        i < j => es[i].exerciseOrder <= es[j].exerciseOrder
                   /\ \A x \in Items(es) :
                        /\ Len(x.sets) = Cardinality({t \in sets : t.exerciseId = x.id})
                        /\ \A t \in sets :
                             t.exerciseId = x.id =>
                               \E i \in 1..Len(x.sets) : x.sets[i].id = t.id
                        /\ \A i, j \in 1..Len(x.sets) :
                             i < j => x.sets[i].setNumber <= x.sets[j].setNumber

\* C15 happens: the listing holds workouts of two days, the later day first though
\* inserted first, and a workout with its two exercises reordered.
C15_Witness ==
  \E p \in Procs :
    /\ Done(p, "getUserWorkouts")
    /\ Len(result[p][1]) = 2
    /\ CalendarDay(result[p][1][1].startedAt) > CalendarDay(result[p][1][2].startedAt)
    /\ result[p][1][1].id < result[p][1][2].id
    /\ \E v \in Items(result[p][1]) :
         /\ Len(v.exercises) = 2
         /\ v.exercises[1].exerciseOrder < v.exercises[2].exerciseOrder
         /\ v.exercises[1].id > v.exercises[2].id

\* C16: the two dated reads depend on the calendar day of their argument only:
\* what a finished read returned is what it can return for every Date of the same
\* day, and the two reads admit the same results for both; getStartOfDay is the
\* midnight at or before its argument and getEndOfDay the last millisecond before
\* the next midnight.
C16_TimeOfDayIgnored ==
  /\ \A d \in Dates :
       /\ getStartOfDay(d) % MsPerDay = 0
       /\ getStartOfDay(d) <= d /\ d - getStartOfDay(d) < MsPerDay
       /\ (getEndOfDay(d) + 1) % MsPerDay = 0
       /\ d <= getEndOfDay(d) /\ getEndOfDay(d) - d < MsPerDay
  /\ \A p \in Procs : \A d2 \in Dates :
       DayOfDate(d2) = DayOfDate(date[p]) =>
         /\ Done(p, "getWorkoutsByDate") =>
              /\ result[p][1] \in
                   NestedResults(SelectWorkoutsByDate(workouts, userId[p][1], d2))
              /\ NestedResults(SelectWorkoutsByDate(workouts, userId[p][1], d2)) =
                   NestedResults(SelectWorkoutsByDate(workouts, userId[p][1], date[p]))
         /\ Done(p, "getWorkoutStatsByDate") =>
              /\ \E ws \in PlainResults(SelectStatsByDate(workouts, userId[p][1], d2)) :
                   result[p][1] = Stats(ws)
              /\ PlainResults(SelectStatsByDate(workouts, userId[p][1], d2)) =
                   PlainResults(SelectStatsByDate(workouts, userId[p][1], date[p]))

\* C16 happens: a read for a Date past midnight has returned the user's workout of
\* that day's midnight, and the Date still carries its time of day.
C16_Witness ==
  \E p \in Procs :
    /\ Done(p, "getWorkoutsByDate")
    /\ date[p] % MsPerDay # 0
    /\ \E w \in Items(result[p][1]) :
         w.startedAt = DayFirstInstant(DayOfDate(date[p]))

\* C17: a list read is deterministic: the sequence a finished getWorkoutsByDate or
\* getUserWorkouts returned is the only one the same read can return on the
\* unchanged store, also with equal startedAt, exerciseOrder or setNumber.
C17_RepeatIdentical ==
  \A p \in Procs :
    /\ Done(p, "getWorkoutsByDate") =>
         NestedResults(SelectWorkoutsByDate(workouts, userId[p][1], date[p])) =
           {result[p][1]}
    /\ Done(p, "getUserWorkouts") =>
         NestedResults(SelectUserWorkouts(workouts, userId[p][1])) = {result[p][1]}

\* ------------------------------------------------------------ deleting rows
\* workouts.userId references users.id ON DELETE cascade
WorkoutsOfUsers(U) == {w \in workouts : w.userId \in {u.id : u \in U}}

\* exercises.workoutId references workouts.id ON DELETE cascade
ExercisesOfWorkouts(W) == {e \in exercises : e.workoutId \in {w.id : w \in W}}

\* Slip: the constraint of sets.exerciseId has no ON DELETE cascade.
SetsOfExercises_NoAction(E) == {}

\* sets.exerciseId references exercises.id ON DELETE cascade
SetsOfExercises(E) == {t \in sets : t.exerciseId \in {e.id : e \in E}}

\* A DELETE statement naming these rows, with all the rows the cascades remove.
Delete(U, W, E, S) ==
  LET Ws == W \cup WorkoutsOfUsers(U)
      Es == E \cup ExercisesOfWorkouts(Ws)
      Ss == S \cup SetsOfExercises(Es)
  IN  /\ users' = users \ U
      /\ workouts' = workouts \ Ws
      /\ exercises' = exercises \ Es
      /\ sets' = sets \ Ss
      /\ UNCHANGED <<session, procVars, everInserted, resolved, parseVars>>

DeleteUser == \E u \in users : Delete({u}, {}, {}, {})
DeleteWorkout == \E w \in workouts : Delete({}, {w}, {}, {})
DeleteExercise == \E e \in exercises : Delete({}, {}, {e}, {})
DeleteSet == \E t \in sets : Delete({}, {}, {}, {t})

\* Workouts of both users at the first midnight.
CascadeWorkoutAttrs ==
  [userId : {User1.id, User2.id}, startedAt : {ToTimestamp(0)}, completed : {FALSE},
   duration : {Null}]

InitCascade == InitStore(CascadeWorkoutAttrs, MaxExercises, MaxSets)

NextCascade ==
  \/ DeleteUser
  \/ DeleteWorkout
  \/ DeleteExercise
  \/ DeleteSet

SpecCascade == InitCascade /\ [][NextCascade]_vars

\* C18: every workout is of a user on file, every exercise of a workout on file
\* and every set of an exercise on file; of a user whose row was removed no
\* workout remains, hence no exercise and no set below one.
C18_CascadeTransitive ==
  /\ \A w \in workouts : \E u \in users : u.id = w.userId
  /\ \A e \in exercises : \E w \in workouts : w.id = e.workoutId
  /\ \A t \in sets : \E e \in exercises : e.id = t.exerciseId
  /\ \A u \in everInserted \ users :
       /\ \A w \in workouts : w.userId # u.id
       /\ \A t \in sets : \E e \in exercises, w \in workouts :
            e.id = t.exerciseId /\ w.id = e.workoutId /\ w.userId # u.id

\* C18 happens: the first user is gone and with it the first workout, exercise and
\* set, while the second user's workout, exercise and set are still on file.
C18_Witness ==
  /\ User1 \notin users /\ User2 \in users
  /\ {w.id : w \in workouts} = {2}
  /\ {e.id : e \in exercises} = {2}
  /\ {t.id : t \in sets} = {2}

\* C19: no step changes the workouts, exercises or sets; a step adds at most one
\* user row, namely the whole row of the values of a call that was at its insert
\* (also when that call is aborted or fails), never removes or alters one, and no
\* call makes a second insert.
C19_SingleAtomicInsert ==
  [][/\ workouts' = workouts /\ exercises' = exercises /\ sets' = sets
     /\ users \subseteq users'
     /\ Cardinality(users' \ users) <= 1
     /\ \A row \in users' \ users :
          \E p \in Procs :
            /\ pc[p] = "insert" /\ pc'[p] # "insert"
            /\ row.clerkId = newUser[p][1].clerkId
            /\ row.email = newUser[p][1].email[1]
            /\ row.name = newUser[p][1].name
            /\ row.id \notin {u.id : u \in users}
     /\ \A p \in Procs :
          Cardinality({i \in 1..Len(trace'[p]) : trace'[p][i] = "insert"}) <= 1
    ]_vars

\* C19 happens: a call was aborted during its insert and the whole row is on file.
C19_Witness ==
  \E p \in Procs :
    /\ pc[p] = "failed"
    /\ err[p] = Some(Aborted)
    /\ newUser[p] # Null
    /\ \E u \in users :
         /\ u.clerkId = newUser[p][1].clerkId
         /\ u.name = newUser[p][1].name
         /\ u.email = newUser[p][1].email[1]

\* ------------------------------------------------------- the date parameter
DigitChars == <<"0", "1", "2", "3", "4", "5", "6", "7", "8", "9">>
IsDigit(c) == \E i \in 1..Len(DigitChars) : DigitChars[i] = c
DigitValue(c) == (CHOOSE i \in 1..Len(DigitChars) : DigitChars[i] = c) - 1

\* Number(text) of a text of digits.
RECURSIVE ToNumber(_)
ToNumber(text) ==
  IF text = <<>> THEN 0
  ELSE 10 * ToNumber(SubSeq(text, 1, Len(text) - 1)) + DigitValue(text[Len(text)])

\* /^\d{4}-\d{2}-\d{2}$/.test(dateString)
dateRegexTest(dateString) ==
  /\ Len(dateString) = 10
  /\ dateString[5] = "-" /\ dateString[8] = "-"
  /\ \A i \in {1, 2, 3, 4, 6, 7, 9, 10} : IsDigit(dateString[i])

IsLeapYear(y) == y % 4 = 0 /\ (y % 100 # 0 \/ y % 400 = 0)

\* The days of month index mi (0 is January) of year y.
DaysInMonth(y, mi) ==
  IF mi = 1 THEN (IF IsLeapYear(y) THEN 29 ELSE 28)
  ELSE IF mi \in {3, 5, 8, 10} THEN 30
  ELSE 31

\* Day d counted from the first of month mi of year y, carried into the months
\* before or after when it is not a day of that month.
RECURSIVE CarryDay(_, _, _)
CarryDay(y, mi, d) ==
  IF d < 1
    THEN LET py == IF mi = 0 THEN y - 1 ELSE y
             pm == IF mi = 0 THEN 11 ELSE mi - 1
         IN  CarryDay(py, pm, d + DaysInMonth(py, pm))
  ELSE IF d > DaysInMonth(y, mi)
    THEN CarryDay(IF mi = 11 THEN y + 1 ELSE y, IF mi = 11 THEN 0 ELSE mi + 1,
                  d - DaysInMonth(y, mi))
  ELSE [year |-> y, monthIndex |-> mi, day |-> d, time |-> 0]

\* new Date(year, monthIndex, day): years 0..99 stand for 1900..1999, a month
\* index outside 0..11 carries into the year, a day outside the month into the
\* months; the result is never an invalid Date.
NewDate(year, monthIndex, day) ==
  LET full == IF year \in 0..99 THEN 1900 + year ELSE year
      y == full + ((monthIndex + 12) \div 12) - 1
      mi == (monthIndex + 12) % 12
  IN  CarryDay(y, mi, day)

\* The Date whose time value is NaN; no day of the calendar has number 0.
InvalidDate == [year |-> 0, monthIndex |-> 0, day |-> 0, time |-> 0]

\* isNaN(date.getTime())
IsInvalidDate(d) == d = InvalidDate

\* date.setHours(0, 0, 0, 0)
AtMidnight(d) == [d EXCEPT !.time = 0]

parseDateFromYYYYMMDD(dateString) ==
  IF ~dateRegexTest(dateString) THEN Null
  ELSE LET year == ToNumber(SubSeq(dateString, 1, 4))
           month == ToNumber(SubSeq(dateString, 6, 7))
           day == ToNumber(SubSeq(dateString, 9, 10))
           parsed == NewDate(year, month - 1, day)
       IN  IF IsInvalidDate(parsed) THEN Null ELSE Some(AtMidnight(parsed))

\* The texts a request can carry as its date parameter.
YearTexts ==
  {<<"2", "0", "2", "4">>, <<"2", "0", "2", "3">>, <<"1", "9", "0", "0">>,
   <<"0", "0", "5", "0">>}

MonthTexts ==
  {<<"0", "0">>, <<"0", "1">>, <<"0", "2">>, <<"0", "4">>, <<"1", "2">>, <<"1", "3">>,
   <<"9", "9">>}

DayTexts ==
  {<<"0", "0">>, <<"0", "1">>, <<"2", "8">>, <<"2", "9">>, <<"3", "0">>, <<"3", "1">>,
   <<"3", "2">>, <<"9", "9">>}

ShapedTexts ==
  {y \o <<"-">> \o m \o <<"-">> \o d : y \in YearTexts, m \in MonthTexts, d \in DayTexts}

MisshapedTexts ==
  {<<>>,
   <<"2", "0", "2", "4">>,
   <<"2", "0", "2", "4", "-", "2", "-", "0", "3">>,
   <<"2", "0", "2", "4", "-", "0", "2", "-", "3">>,
   <<"2", "4", "-", "0", "2", "-", "0", "3">>,
   <<"2", "0", "2", "4", "/", "0", "2", "/", "0", "3">>,
   <<"2", "0", "2", "4", "-", "0", "2", "-", "0", "3", " ">>,
   <<"2", "0", "2", "4", "-", "0", "2", "-", "0", "3", "1">>,
   <<"2", "0", "2", "4", "0", "2", "0", "3">>,
   <<"2", "0", "2", "4", "-", "0", "a", "-", "0", "3">>,
   <<"t", "o", "d", "a", "y">>}

DateParams == ShapedTexts \cup MisshapedTexts

\* const parsedDate = parseDateFromYYYYMMDD(params.date)
ParseDateParam ==
  /\ dateParam # Null
  /\ parsedDate = Null
  /\ parsedDate' = Some(parseDateFromYYYYMMDD(dateParam[1]))
  /\ UNCHANGED <<users, storeVars, session, procVars, everInserted, resolved, dateParam,
                 pickerDate, otherParams, navigations, handled>>

\* A request with a date parameter arrives at the page.
InitParse ==
  /\ users = {}
  /\ workouts = {}
  /\ exercises = {}
  /\ sets = {}
  /\ everInserted = {}
  /\ resolved = {}
  /\ InitRequests
  /\ InitNoPicker
  /\ dateParam \in {Some(text) : text \in DateParams}
  /\ parsedDate = Null

NextParse == ParseDateParam

SpecParse == InitParse /\ [][NextParse]_vars

\* The number a text of digits writes, digit by digit.
Written(text) ==
  LET v(i) == CHOOSE n \in 0..9 : DigitChars[n + 1] = text[i]
  IN  IF Len(text) = 4 THEN 1000 * v(1) + 100 * v(2) + 10 * v(3) + v(4)
      ELSE 10 * v(1) + v(2)

YearOf(text) == Written(SubSeq(text, 1, 4))
MonthOf(text) == Written(SubSeq(text, 6, 7))
DayOf(text) == Written(SubSeq(text, 9, 10))

\* The text is YYYY-MM-DD and names a day of the calendar.
DenotesDay(text) ==
  /\ Len(text) = 10
  /\ text[5] = "-" /\ text[8] = "-"
  /\ \A i \in (1..10) \ {5, 8} : text[i] \in Items(DigitChars)
  /\ MonthOf(text) \in 1..12
  /\ DayOf(text) >= 1
  /\ DayOf(text) <=
       (IF MonthOf(text) = 2
          THEN (IF YearOf(text) % 4 = 0 /\ (YearOf(text) % 100 # 0 \/ YearOf(text) % 400 = 0)
                  THEN 29 ELSE 28)
        ELSE IF MonthOf(text) \in {4, 6, 9, 11} THEN 30 ELSE 31)

\* C20: parseDateFromYYYYMMDD answers null for every text that is not a
\* YYYY-MM-DD text naming an existing day, and for a text that names one the Date
\* at midnight of that year, month and day.
C20_InvalidRejected ==
  (dateParam # Null /\ parsedDate # Null) =>
    LET text == dateParam[1]
        answer == parsedDate[1]
    IN  IF DenotesDay(text)
          THEN answer = Some([year |-> YearOf(text), monthIndex |-> MonthOf(text) - 1,
                              day |-> DayOf(text), time |-> 0])
          ELSE answer = Null

\* ------------------------------------------ a store that other actors change
\* The next value of the identity column of workouts and of exercises.
NextWorkoutId ==
  IF workouts = {} THEN 1
  ELSE (CHOOSE i \in {w.id : w \in workouts} : \A w \in workouts : w.id <= i) + 1

NextExerciseId ==
  IF exercises = {} THEN 1
  ELSE (CHOOSE i \in {e.id : e \in exercises} : \A e \in exercises : e.id <= i) + 1

\* Workouts of the first user at the midnights of the first two days.
LiveWorkoutAttrs ==
  [userId : {User1.id}, startedAt : {ToTimestamp(0), ToTimestamp(MsPerDay)},
   completed : {FALSE}, duration : {Null}]

\* Another request commits a workout: db.insert(workoutsTable).values(...)
CommitWorkout ==
  /\ Cardinality(workouts) < MaxWorkouts
  /\ NextWorkoutId <= MaxWorkoutId
  /\ \E a \in LiveWorkoutAttrs :
       workouts' = workouts \cup
         {[id |-> NextWorkoutId, userId |-> a.userId, startedAt |-> a.startedAt,
           completedAt |-> Null, duration |-> a.duration]}
  /\ UNCHANGED <<users, exercises, sets, session, procVars, everInserted, resolved,
                 parseVars>>

\* Another request commits an exercise of a workout on file.
CommitExercise ==
  /\ exercises = {}
  /\ \E w \in workouts :
       exercises' = exercises \cup
         {[id |-> NextExerciseId, workoutId |-> w.id, exerciseOrder |-> 0]}
  /\ UNCHANGED <<users, workouts, sets, session, procVars, everInserted, resolved,
                 parseVars>>

\* const [workouts, stats] = await Promise.all([getWorkoutsByDate(selectedDate),
\* getWorkoutStatsByDate(selectedDate)]): one render starts both calls.
StartRender(d, s) ==
  /\ pc[1] = "idle" /\ pc[2] = "idle"
  /\ pc' = [pc EXCEPT ![1] = "auth", ![2] = "auth"]
  /\ op' = [op EXCEPT ![1] = "getWorkoutsByDate", ![2] = "getWorkoutStatsByDate"]
  /\ date' = [date EXCEPT ![1] = d, ![2] = d]
  /\ session' = [session EXCEPT ![1] = s, ![2] = s]
  /\ rowAtStart' = [rowAtStart EXCEPT ![1] = s # Null /\ ClerkIdTaken(users, s[1]),
                                      ![2] = s # Null /\ ClerkIdTaken(users, s[1])]
  /\ UNCHANGED <<users, storeVars, clerkUserId, clerkUser, newUser, userId, result,
                 err, trace, everInserted, resolved, parseVars>>

\* The first user is provisioned; no workout is on file yet.
InitLive ==
  /\ users = {User1}
  /\ everInserted = {User1}
  /\ resolved = {}
  /\ workouts = {}
  /\ exercises = {}
  /\ sets = {}
  /\ InitProcs

NextLive ==
  \/ CommitWorkout
  \/ CommitExercise
  \/ DeleteWorkout
  \/ \E d \in Midnights : StartRender(d, Some(User1.clerkId))
  \/ StartCall(1, "getUserWorkouts", 0, Some(User1.clerkId))
  \/ \E p \in {1, 2} :
       \/ Auth(p)
       \/ FindUser(p)
       \/ FindWorkoutsByDate(p)
       \/ FindStatsByDate(p)
       \/ FindUserWorkouts(p)
       \/ Finish(p)

SpecLive == InitLive /\ [][NextLive]_vars

\* The user's workouts a read of p is about, as the table holds them now.
OnFile(p) ==
  IF op[p] = "getUserWorkouts" THEN OwnWorkouts(userId[p][1])
  ELSE OwnOfDay(userId[p][1], date[p])

\* C21: the step in which a call gets its answer answers from the table as it
\* is at that step: a list holds each workout on file for the user (and day)
\* once and no other, statistics count exactly those, whatever was committed or
\* deleted before.
C21_ReadsTheTable ==
  [][\A p \in Procs :
       (pc[p] = "findMany" /\ pc'[p] = "done") =>
         IF op[p] = "getWorkoutStatsByDate"
           THEN result'[p][1].totalWorkouts = Cardinality(OnFile(p))
           ELSE /\ Len(result'[p][1]) = Cardinality(OnFile(p))
                /\ {w.id : w \in Items(result'[p][1])} = {w.id : w \in OnFile(p)}
    ]_vars

\* C21 happens: a dated list holds the workout committed second while the one
\* committed first is deleted.
C21_Witness ==
  \E p \in Procs :
    /\ Done(p, "getWorkoutsByDate")
    /\ {w.id : w \in Items(result[p][1])} = {2}
    /\ {w.id : w \in workouts} = {2}

\* ------------------------------------------------- renders of the dashboard
\* The profiles with an email address on file.
ValidProfiles == {profile \in Profiles : profile.emailAddresses # <<>>}

\* The page is rendered again and again for one principal, from the empty database.
NextRender ==
  \/ \E d \in Midnights : StartRender(d, Some("ext_1"))
  \/ \E p \in {1, 2} :
       \/ Auth(p)
       \/ FindUser(p)
       \/ CurrentUserWith(p, ValidProfiles)
       \/ InsertUser(p)
       \/ FindWorkoutsByDate(p)
       \/ FindStatsByDate(p)
       \/ Finish(p)

SpecRender == Init /\ [][NextRender]_vars

\* C22: neither call of a render for a principal with a complete profile ends in
\* an error, also when no row of the principal is on file at its start, and the
\* render leaves exactly one row of the principal.
C22_FirstRenderSucceeds ==
  /\ \A p \in {1, 2} : pc[p] # "failed" /\ err[p] = Null
  /\ Cardinality({u \in users : u.clerkId = "ext_1"}) <= 1
  /\ (pc[1] = "done" /\ pc[2] = "done") =>
       Cardinality({u \in users : u.clerkId = "ext_1"}) = 1

\* C23: the id the resolver returned to a call, found or just inserted, is the id
\* of a row on file whose clerkId is the principal of that call, and of no row of
\* another principal; so is every id ever returned for a principal.
C23_IdOfOwnRow ==
  /\ \A p \in Procs :
       userId[p] # Null =>
         /\ \E u \in users : u.id = userId[p][1] /\ Some(u.clerkId) = clerkUserId[p]
         /\ \A u \in users : u.id = userId[p][1] => Some(u.clerkId) = clerkUserId[p]
  /\ \A r \in resolved :
       /\ \E u \in users : u.id = r[2] /\ u.clerkId = r[1]
       /\ \A u \in users : u.clerkId # r[1] => u.id # r[2]

\* C23 happens: two calls in flight for two principals hold the ids of their own
\* rows, one found and one just inserted.
C23_Witness ==
  \E p, q \in Procs :
    /\ userId[p] # Null /\ userId[q] # Null
    /\ clerkUserId[p] # clerkUserId[q]
    /\ userId[p] # userId[q]
    /\ "insert" \in Items(trace[p])
    /\ "insert" \notin Items(trace[q])

\* C24: when both calls of a render have answered, the statistics agree with
\* the list: totalWorkouts is the length of the list and totalExercises the sum
\* of the exercise counts of the listed workouts, also when other requests
\* commit or delete workouts between the two reads.
C24_StatsAgreeWithList ==
  (Done(1, "getWorkoutsByDate") /\ Done(2, "getWorkoutStatsByDate")) =>
    /\ result[2][1].totalWorkouts = Len(result[1][1])
    /\ result[2][1].totalExercises =
         SumSeq([i \in 1..Len(result[1][1]) |-> Len(result[1][1][i].exercises)])

\* C25: every instant the column can hold lies in the range of exactly one day,
\* and a finished getWorkoutsByDate(D) holds exactly the user's workouts whose
\* startedAt is an instant of calendar day D.
C25_DaysPartition ==
  /\ \A t \in Instants :
       Cardinality({d \in Midnights :
                      /\ ToTimestamp(getStartOfDay(d)) <= t
                      /\ t <= ToTimestamp(getEndOfDay(d))}) = 1
  /\ \A p \in Procs :
       Done(p, "getWorkoutsByDate") =>
         {w.id : w \in Items(result[p][1])} =
           {w.id : w \in {x \in OwnWorkouts(userId[p][1]) :
                            CalendarDay(x.startedAt) = DayOfDate(date[p])}}

\* C26: the insert of a call whose principal has no row, while a row of another
\* principal holds the call's email, fails with the violation of
\* users_email_unique; it leaves the users table as it was and the call without
\* an internal id.
C26_EmailOfAnotherUser ==
  [][\A p \in Procs :
       (/\ pc[p] = "insert"
        /\ trace'[p] = Append(trace[p], "insert")
        /\ \A u \in users : u.clerkId # newUser[p][1].clerkId
        /\ \E u \in users : u.email = newUser[p][1].email[1]) =>
         /\ pc'[p] = "failed"
         /\ err'[p] = Some(EmailUniqueViolation)
         /\ users' = users
         /\ userId'[p] = Null
         /\ resolved' = resolved
    ]_vars

\* C26 happens: a call of a principal without a row has failed on the email of
\* the other principal's row.
C26_Witness ==
  \E p \in Procs :
    /\ pc[p] = "failed"
    /\ err[p] = Some(EmailUniqueViolation)
    /\ userId[p] = Null
    /\ \A u \in users : Some(u.clerkId) # clerkUserId[p]
    /\ \E u \in users : u.email = newUser[p][1].email[1]

\* C27: every row of the users table has a name and an email of at least one
\* character, whatever profile the provider returned for its principal.
C27_NameAndEmailNotEmpty ==
  \A u \in users : Len(u.name) > 0 /\ Len(u.email) > 0

\* ------------------------------------------------------ the dashboard page
\* What new Date() can answer: a moment past a midnight and a leap day's midnight.
Nows ==
  {[year |-> 2024, monthIndex |-> 4, day |-> 17, time |-> 1],
   [year |-> 2024, monthIndex |-> 1, day |-> 29, time |-> 0]}

\* const today = new Date(); today.setHours(0, 0, 0, 0); return today
getTodayAtMidnight(now) == AtMidnight(now)

\* The days of the calendar before the first of January of year y.
DaysBeforeYear(y) == 365 * y + ((y - 1) \div 4) - ((y - 1) \div 100) + ((y - 1) \div 400)

\* date.getTime() of a local Date, in the model's milliseconds of MsPerDay a day.
getTime(d) ==
  (DaysBeforeYear(d.year)
     + SumSeq([k \in 1..d.monthIndex |-> DaysInMonth(d.year, k - 1)])
     + (d.day - 1)) * MsPerDay + d.time

\* Slip: the parsed date is dropped.
SelectedDate_AlwaysToday(param, parsed, now) == getTodayAtMidnight(now)

\* if (params.date) { ... if (parsedDate) selectedDate = parsedDate; else today }
\* else today
SelectedDate(param, parsed, now) ==
  IF Truthy(param)
    THEN (IF parsed[1] # Null THEN parsed[1][1] ELSE getTodayAtMidnight(now))
    ELSE getTodayAtMidnight(now)

\* if (params.date) { const parsedDate = parseDateFromYYYYMMDD(params.date)
ParsePageParam ==
  /\ Truthy(dateParam)
  /\ ParseDateParam

\* The page selects its date and starts the two reads with it.
RenderPage(now) ==
  /\ ~Truthy(dateParam) \/ parsedDate # Null
  /\ StartRender(getTime(SelectedDate(dateParam, parsedDate, now)), Some(User1.clerkId))

\* A request for the page with or without a date parameter; user 1 is on file.
InitPage ==
  /\ users = {User1}
  /\ everInserted = {User1}
  /\ resolved = {}
  /\ workouts = {}
  /\ exercises = {}
  /\ sets = {}
  /\ InitRequests
  /\ InitNoPicker
  /\ dateParam \in {Null} \cup {Some(text) : text \in DateParams}
  /\ parsedDate = Null

NextPage ==
  \/ ParsePageParam
  \/ \E now \in Nows : RenderPage(now)
  \/ \E p \in {1, 2} :
       \/ Auth(p)
       \/ FindUser(p)
       \/ FindWorkoutsByDate(p)
       \/ FindStatsByDate(p)
       \/ Finish(p)

SpecPage == InitPage /\ [][NextPage]_vars

\* The midnights new Date() can lead to.
TodayMidnights == {getTime([n EXCEPT !.time = 0]) : n \in Nows}

\* C28: each call of a render got a local midnight as its date: the parsed date
\* when parseDateFromYYYYMMDD accepted the parameter, today's midnight when the
\* parameter is absent, empty or was rejected; the two calls of a render got the
\* same date, the first as getWorkoutsByDate and the second as
\* getWorkoutStatsByDate.
C28_OneSelectedDay ==
  /\ \A p \in {1, 2} :
       pc[p] # "idle" =>
         /\ date[p] % MsPerDay = 0
         /\ IF parsedDate # Null /\ parsedDate[1] # Null
              THEN date[p] = getTime(parsedDate[1][1])
              ELSE date[p] \in TodayMidnights
  /\ (pc[1] # "idle" /\ pc[2] # "idle") =>
       /\ date[1] = date[2]
       /\ op[1] = "getWorkoutsByDate" /\ op[2] = "getWorkoutStatsByDate"

\* C28 happens: the parameter "today" was rejected and both calls run for the
\* midnight of a today that was past midnight; no call has failed.
C28_Witness ==
  /\ dateParam = Some(<<"t", "o", "d", "a", "y">>)
  /\ parsedDate = Some(Null)
  /\ pc[1] = "done" /\ pc[2] = "done"
  /\ date[1] = getTime([year |-> 2024, monthIndex |-> 4, day |-> 17, time |-> 0])
  /\ date[2] = date[1]

\* ---------------------------------------------------------- the date picker
\* String(n) of a natural number.
RECURSIVE ToText(_)
ToText(n) ==
  IF n < 10 THEN <<DigitChars[n + 1]>>
  ELSE ToText(n \div 10) \o <<DigitChars[(n % 10) + 1]>>

\* `${year}-${month}-${day}` of getFullYear(), getMonth() + 1 and getDate()
formatDateToYYYYMMDD(d) ==
  LET padStart2(text) == IF Len(text) < 2 THEN <<"0">> \o text ELSE text
      year == ToText(d.year)
      month == padStart2(ToText(d.monthIndex + 1))
      day == padStart2(ToText(d.day))
  IN  year \o <<"-">> \o month \o <<"-">> \o day

\* The days the calendar can hand to handleDateChange: days of this and of the
\* last year, one with a time of day, and a day of the year 999.
PickedDates ==
  {[year |-> 2024, monthIndex |-> 1, day |-> 29, time |-> 0],
   [year |-> 2024, monthIndex |-> 1, day |-> 29, time |-> 1],
   [year |-> 2023, monthIndex |-> 11, day |-> 31, time |-> 0],
   [year |-> 2024, monthIndex |-> 4, day |-> 7, time |-> 0],
   [year |-> 999, monthIndex |-> 0, day |-> 1, time |-> 0]}

\* Slip: the query is built anew, the other parameters are lost.
SetDateParam_Fresh(params, dateString) == [date |-> Some(dateString), other |-> Null]

\* const params = new URLSearchParams(searchParams); params.set("date", dateString)
SetDateParam(params, dateString) == [params EXCEPT !.date = Some(dateString)]

\* The page puts the picker on screen: useState<Date>(selectedDate)
MountPicker(now) ==
  /\ pickerDate = Null
  /\ ~Truthy(dateParam) \/ parsedDate # Null
  /\ pickerDate' = Some(SelectedDate(dateParam, parsedDate, now))
  /\ UNCHANGED <<users, storeVars, session, procVars, everInserted, resolved,
                 dateParam, parsedDate, otherParams, navigations, handled>>

\* handleDateChange(newDate); the push makes the pushed query the query of the URL.
handleDateChange(newDate) ==
  /\ pickerDate # Null
  /\ Len(handled) < MaxPicks
  /\ handled' = Append(handled, newDate)
  /\ IF newDate = Null
       THEN UNCHANGED <<pickerDate, dateParam, parsedDate, navigations>>
     ELSE IF IsInvalidDate(newDate[1])
       THEN UNCHANGED <<pickerDate, dateParam, parsedDate, navigations>>
     ELSE LET searchParams == [date |-> dateParam, other |-> otherParams]
              dateString == formatDateToYYYYMMDD(newDate[1])
              params == SetDateParam(searchParams, dateString)
          IN  /\ pickerDate' = newDate
              /\ navigations' = Append(navigations, [path |-> "/dashboard", query |-> params])
              /\ dateParam' = params.date
              /\ parsedDate' = Null
  /\ UNCHANGED <<users, storeVars, session, procVars, everInserted, resolved,
                 otherParams>>

\* The first request for the page carries no date, a day or a text that is no
\* date, and possibly one other query parameter.
InitPicker ==
  /\ users = {}
  /\ workouts = {}
  /\ exercises = {}
  /\ sets = {}
  /\ everInserted = {}
  /\ resolved = {}
  /\ InitRequests
  /\ dateParam \in {Null, Some(<<"2", "0", "2", "4", "-", "0", "2", "-", "2", "9">>),
                   Some(<<"t", "o", "d", "a", "y">>)}
  /\ parsedDate = Null
  /\ pickerDate = Null
  /\ otherParams \in {Null, Some(<<"w">>)}
  /\ navigations = <<>>
  /\ handled = <<>>

NextPicker ==
  \/ ParsePageParam
  \/ \E now \in Nows : MountPicker(now)
  \/ \E newDate \in {Null, Some(InvalidDate)} \cup {Some(d) : d \in PickedDates} :
       handleDateChange(newDate)

SpecPicker == InitPicker /\ [][NextPicker]_vars

\* C29: what the page parses from the parameter the picker pushed is the
\* midnight of the picked day; formatting the Date parsed from a text that
\* names an existing day gives that text back.
C29_RoundTrip ==
  /\ (navigations # <<>> /\ parsedDate # Null) =>
       parsedDate[1] = Some([pickerDate[1] EXCEPT !.time = 0])
  /\ \A text \in DateParams :
       DenotesDay(text) =>
         /\ parseDateFromYYYYMMDD(text) # Null
         /\ formatDateToYYYYMMDD(parseDateFromYYYYMMDD(text)[1]) = text

\* The text is the year, the month in two digits and the day in two digits of
\* the Date, joined by "-".
IsLocalDayText(text, d) ==
  LET n == Len(text)
  IN  /\ n >= 7
      /\ text[n - 2] = "-" /\ text[n - 5] = "-"
      /\ \A i \in (1..n) \ {n - 2, n - 5} : IsDigit(text[i])
      /\ ToNumber(SubSeq(text, 1, n - 6)) = d.year
      /\ ToNumber(SubSeq(text, n - 4, n - 3)) = d.monthIndex + 1
      /\ ToNumber(SubSeq(text, n - 1, n)) = d.day

====
